---- MODULE Spec2Model ----
(***************************************************************************)
(* A model of the sdh steganography code: forward_pass and train           *)
(* (src/utils/util.py) and the networks UnetGenerator, RevealNet and       *)
(* AttackNet (src/networks.py).  Tensors are modelled by their shapes      *)
(* (sequences of naturals), keys by sequences of bits, batches by the      *)
(* sequence of their items.  One process runs one entry point to its end.  *)
(***************************************************************************)
EXTENDS Integers, Sequences, FiniteSets, TLC

\* ------------------------------------------------------------------ bounds
MaxW == 3
MaxBatch == 15
MaxNumDowns == 7
MaxNhf == 2
MaxExp == 8
MaxOddExp == 3
MaxSkew == 1
MaxR == 3
MaxEpochs == 3
MaxIters == 2
MaxBatches == 2

\* ------------------------------------------------------------------ state
VARIABLES
    pc,          \* position of the running entry point
    err,         \* "none", or the name of the exception that ended the run
    cover,       \* forward_pass: shape of the cover batch
    secret,      \* forward_pass: shape of the secret batch
    Enet,        \* forward_pass: the Enet argument, "None" or "module"
    key,         \* forward_pass: the real key (sequence of bits)
    fake_key,    \* forward_pass: the fake key (sequence of bits)
    keySamples,  \* forward_pass: how many key vectors were sampled so far (0, 1, 2; resamples not counted)
    resampled,   \* forward_pass: the while body (line 239) has run at least once
    hnetCalls,   \* forward_pass: invocations of Hnet
    rnetCalls,   \* forward_pass: invocations of Rnet
    noise_type,  \* AttackNet: self.noise_type ("unset" before construction)
    X,           \* AttackNet.forward: the input batch, one entry per item
    attack_out,  \* AttackNet.forward: the returned batch, <<item, transform>> per position
    opts,        \* UnetGenerator / RevealNet: the constructor's arguments (<<>> before a call)
    net,         \* the constructed network, <<object>>, or <<>> while there is none
    x_shape,     \* forward: shape [b,c,h,w] of the input batch
    k,           \* forward: the key argument, <<>> for None, <<length>> for a key vector
    ke_shape,    \* forward: shape of the key tile ke, <<>> while there is none
    y_shape,     \* forward: shape of the returned tensor, <<>> while there is none
    opt,         \* train: the options read, [epochs, iters_per_epoch, lr_decay_freq]
    loaders,     \* train: batches per pass of each loader, [secret, cover]
    epoch,       \* train: the loop variable of line 297
    i,           \* train: the loop variable of line 319
    bound,       \* train: the locals of the iteration body (batch_size, cover, ..., i) are assigned
    lr,          \* train: param_group['lr'] of each group, as the divisor d of opt.lr / d
    params,      \* train: the networks' parameters, as the number of optimizer steps applied
    events,      \* train: the calls of the current epoch in order, [ev, params] each
    MIN_LOSS,    \* train: <<>> for float('inf'), <<v>> for the value v
    val,         \* train: what inference returned this epoch, <<>> before
    ckpt_best,   \* checkpoint_best.pth.tar: <<>> or <<[epoch, params, optimizer]>>
    ckpt_newest, \* checkpoint_newest.pth.tar: <<>> or <<[epoch, params, optimizer]>>
    saves        \* log of the save_checkpoint calls: [is_best, sum_diff, epoch, params] each

fpVars == <<Enet, cover, secret, key, fake_key, keySamples, resampled, hnetCalls, rnetCalls>>
anVars == <<noise_type, X, attack_out>>
netVars == <<opts, net, x_shape, k, ke_shape, y_shape>>
trVars == <<opt, loaders, epoch, i, bound, lr, params, events, MIN_LOSS, val, ckpt_best, ckpt_newest, saves>>
vars == <<pc, err, fpVars, anVars, netVars, trVars>>

\* ------------------------------------------------------------ forward_pass
\* All binary vectors of length n: [float(torch.randn(1)<0) for _ in range(w)]
BinVec(n) == [1..n -> {0, 1}]

\* Image batch shapes handed to forward_pass: rank 4 [b,c,h,w], and one rank-3 shape.
FPShapes ==
    {<<b, 1, h, w>> : b \in {1, 2}, h \in 0..MaxW, w \in 0..MaxW} \cup {<<1, 1, 1>>}

\* The Enet argument: None, or a module
EnetInputs == {"None", "module"}

\* w of "b, c, h, w = cover.shape": the key length (0 before the unpacking)
KeyLen == IF Len(cover) = 4 THEN cover[4] ELSE 0

\* torch.equal(fake_key, key)
TorchEqual_Inverted(a, b) == a # b
TorchEqual(a, b) == a = b

\* assert cover.shape == secret.shape
SameShape(c, s) == c = s

\* assert h == w
IsSquare_Dropped(shape) == TRUE
IsSquare(shape) == shape[3] = shape[4]

FP_Raise(e) == pc' = "fp_raised" /\ err' = e

\* The call (line 218): Enet is "None" (the default) or "module"
FP_Call(c, s, e) ==
    /\ pc = "idle"
    /\ cover' = c /\ secret' = s
    /\ Enet' = e
    /\ pc' = "fp_assert_shape"
    /\ UNCHANGED <<err, key, fake_key, keySamples, resampled, hnetCalls, rnetCalls, anVars, netVars, trVars>>

FP_AssertShape ==
    /\ pc = "fp_assert_shape"
    /\ IF SameShape(cover, secret)
         THEN pc' = "fp_unpack" /\ err' = err
         ELSE FP_Raise("AssertionError")
    /\ UNCHANGED <<fpVars, anVars, netVars, trVars>>

FP_Unpack ==
    /\ pc = "fp_unpack"
    /\ IF Len(cover) = 4
         THEN pc' = "fp_assert_square" /\ err' = err
         ELSE FP_Raise("ValueError")
    /\ UNCHANGED <<fpVars, anVars, netVars, trVars>>

FP_AssertSquare ==
    /\ pc = "fp_assert_square"
    /\ IF IsSquare(cover)
         THEN pc' = "fp_key" /\ err' = err
         ELSE FP_Raise("AssertionError")
    /\ UNCHANGED <<fpVars, anVars, netVars, trVars>>

FP_SampleKey(v) ==
    /\ pc = "fp_key"
    /\ v \in BinVec(KeyLen)
    /\ key' = v
    /\ keySamples' = keySamples + 1
    /\ pc' = "fp_fake"
    /\ UNCHANGED <<err, Enet, cover, secret, fake_key, resampled, hnetCalls, rnetCalls, anVars, netVars, trVars>>

FP_SampleFake(v) ==
    /\ pc = "fp_fake"
    /\ v \in BinVec(KeyLen)
    /\ fake_key' = v
    /\ keySamples' = keySamples + 1
    /\ pc' = "fp_while"
    /\ UNCHANGED <<err, Enet, cover, secret, key, resampled, hnetCalls, rnetCalls, anVars, netVars, trVars>>

FP_Resample(v) ==
    /\ pc = "fp_while"
    /\ TorchEqual(fake_key, key)
    /\ v \in BinVec(KeyLen)
    /\ fake_key' = v
    /\ resampled' = TRUE
    /\ UNCHANGED <<pc, err, Enet, cover, secret, key, keySamples, hnetCalls, rnetCalls, anVars, netVars, trVars>>

FP_LoopExit ==
    /\ pc = "fp_while"
    /\ ~TorchEqual(fake_key, key)
    /\ pc' = "fp_nets"
    /\ UNCHANGED <<err, fpVars, anVars, netVars, trVars>>

\* Lines 241-275.  red_key and red_fake_key are assigned only when Enet is
\* None (lines 243-248); with an Enet the cat at line 251 or 253 reads the
\* unassigned red_key before any network is called.
FP_Nets ==
    /\ pc = "fp_nets"
    /\ IF Enet = "None"
         THEN /\ hnetCalls' = hnetCalls + 1
              /\ rnetCalls' = rnetCalls + 2
              /\ pc' = "fp_return"
              /\ err' = err
         ELSE /\ FP_Raise("UnboundLocalError")
              /\ UNCHANGED <<hnetCalls, rnetCalls>>
    /\ UNCHANGED <<Enet, cover, secret, key, fake_key, keySamples, resampled, anVars, netVars, trVars>>

FP_Steps ==
    \/ FP_AssertShape
    \/ FP_Unpack
    \/ FP_AssertSquare
    \/ \E v \in BinVec(KeyLen) : FP_SampleKey(v)
    \/ \E v \in BinVec(KeyLen) : FP_SampleFake(v)
    \/ \E v \in BinVec(KeyLen) : FP_Resample(v)
    \/ FP_LoopExit
    \/ FP_Nets

FP_Next ==
    \/ \E c \in FPShapes, s \in FPShapes, e \in EnetInputs : FP_Call(c, s, e)
    \/ FP_Steps

\* --------------------------------------------------------------- AttackNet
\* The noise-type strings of the configuration surface, and one that is not.
ConfigNoiseTypes == {"identity", "noise", "blur", "resize", "jpeg", "combine"}
NoiseTypeInputs == ConfigNoiseTypes \cup {"dropout"}

\* A batch of b items, named by their index.
Batch(b) == [j \in 1..b |-> j]

\* Python's X[lo : hi] for 0 <= lo, hi <= len(X) (empty when hi <= lo)
Slice(S, lo, hi) == SubSeq(S, lo + 1, hi)

\* layer(slice): every item of the slice goes through the layer
Through(layer, S) == [j \in 1..Len(S) |-> <<S[j], layer>>]

\* forward, noise_type == 'combine' (lines 240-245)
AttackCombine_Swapped(S) ==
    LET b == Len(S) IN
    Through("identity", Slice(S, 0, b \div 5))
    \o Through("gaussian_noise", Slice(S, b \div 5, (2 * b) \div 5))
    \o Through("resize", Slice(S, (2 * b) \div 5, (3 * b) \div 5))
    \o Through("gaussian_blur", Slice(S, (3 * b) \div 5, (4 * b) \div 5))
    \o Through("jpeg", Slice(S, (4 * b) \div 5, b))
AttackCombine(S) ==
    LET b == Len(S) IN
    Through("identity", Slice(S, 0, b \div 5))
    \o Through("gaussian_noise", Slice(S, b \div 5, (2 * b) \div 5))
    \o Through("gaussian_blur", Slice(S, (2 * b) \div 5, (3 * b) \div 5))
    \o Through("resize", Slice(S, (3 * b) \div 5, (4 * b) \div 5))
    \o Through("jpeg", Slice(S, (4 * b) \div 5, b))

\* forward, the else branch (lines 247-258): the layer chosen by noise_type, or
\* "unbound" when no branch assigns X_noise (line 257 builds the exception and
\* does not raise it)
SingleLayer(nt) ==
    CASE nt = "noise" -> "gaussian_noise"
      [] nt = "blur" -> "gaussian_blur"
      [] nt = "resize" -> "resize"
      [] nt = "jpeg" -> "jpeg"
      [] OTHER -> "unbound"

AttackSingle_Gap(nt, S) ==
    LET b == Len(S) IN
    Through("identity", Slice(S, 0, (2 * b) \div 5))
    \o Through(SingleLayer(nt), Slice(S, (3 * b) \div 5, b))
AttackSingle(nt, S) ==
    LET b == Len(S) IN
    Through("identity", Slice(S, 0, (2 * b) \div 5))
    \o Through(SingleLayer(nt), Slice(S, (2 * b) \div 5, b))

\* AttackNet.__init__ (lines 228-235): stores noise_type, checks nothing
AN_Init(nt) ==
    /\ pc = "idle"
    /\ noise_type' = nt
    /\ pc' = "an_ready"
    /\ UNCHANGED <<err, X, attack_out, fpVars, netVars, trVars>>

\* AttackNet.forward (lines 237-258)
AN_Forward(b) ==
    /\ pc = "an_ready"
    /\ X' = Batch(b)
    /\ IF noise_type = "combine"
         THEN /\ attack_out' = AttackCombine(Batch(b))
              /\ pc' = "an_return" /\ err' = err
         ELSE IF SingleLayer(noise_type) = "unbound"
                THEN /\ attack_out' = attack_out
                     /\ pc' = "an_raised" /\ err' = "UnboundLocalError"
                ELSE /\ attack_out' = AttackSingle(noise_type, Batch(b))
                     /\ pc' = "an_return" /\ err' = err
    /\ UNCHANGED <<noise_type, fpVars, netVars, trVars>>

AN_Next ==
    \/ \E nt \in NoiseTypeInputs : AN_Init(nt)
    \/ \E b \in 1..MaxBatch : AN_Forward(b)

\* ------------------------------------------------------- tensors as shapes
\* The result of a tensor operation: a shape, or the exception it raised.
Ok(shape) == [err |-> "none", shape |-> shape]
Fail(e) == [err |-> e, shape |-> <<>>]

\* Output size of nn.Conv2d along one axis: floor((n + 2p - k) / s) + 1
Conv2dSize(n, ksize, stride, pad) == ((n + 2 * pad - ksize) \div stride) + 1

\* Output size of nn.ConvTranspose2d along one axis: (n - 1) s - 2p + k
ConvT2dSize(n, ksize, stride, pad) == (n - 1) * stride - 2 * pad + ksize

\* nn.Conv2d(cin, cout, kernel_size, stride, padding) applied to t: the input must
\* have cin channels and, padded, be no smaller than the kernel.
Conv2d(cin, cout, ksize, stride, pad, t) ==
    IF t.err # "none" THEN t
    ELSE IF \/ t.shape[2] # cin
            \/ t.shape[3] + 2 * pad < ksize
            \/ t.shape[4] + 2 * pad < ksize
           THEN Fail("RuntimeError")
           ELSE Ok(<<t.shape[1], cout,
                     Conv2dSize(t.shape[3], ksize, stride, pad),
                     Conv2dSize(t.shape[4], ksize, stride, pad)>>)

\* nn.ConvTranspose2d(cin, cout, kernel_size, stride, padding) applied to t
ConvT2d(cin, cout, ksize, stride, pad, t) ==
    IF t.err # "none" THEN t
    ELSE IF t.shape[2] # cin \/ t.shape[3] < 1 \/ t.shape[4] < 1
           THEN Fail("RuntimeError")
           ELSE Ok(<<t.shape[1], cout,
                     ConvT2dSize(t.shape[3], ksize, stride, pad),
                     ConvT2dSize(t.shape[4], ksize, stride, pad)>>)

\* torch.cat((a, b), dim=1): every dimension but the channels must agree
Cat1(a, b) ==
    IF a.err # "none" THEN a
    ELSE IF b.err # "none" THEN b
    ELSE IF a.shape[1] = b.shape[1] /\ a.shape[3] = b.shape[3] /\ a.shape[4] = b.shape[4]
           THEN Ok(<<a.shape[1], a.shape[2] + b.shape[2], a.shape[3], a.shape[4]>>)
           ELSE Fail("RuntimeError")

\* self.encoder(k).view(1, c, r, r).repeat(b, 1, h//r, w//r) for x of shape xs:
\* the encoder is None without key_len (calling it is a TypeError), the Linear
\* layer wants a key of in_features entries, and view wants c*r*r elements.
KeyTile_Stretched(encoder, r, kk, xs) ==
    IF encoder = <<>> THEN Fail("TypeError")
    ELSE IF kk[1] # encoder[1] THEN Fail("RuntimeError")
    ELSE IF encoder[2] # xs[2] * r * r THEN Fail("RuntimeError")
    ELSE Ok(xs)
KeyTile(encoder, r, kk, xs) ==
    IF encoder = <<>> THEN Fail("TypeError")
    ELSE IF kk[1] # encoder[1] THEN Fail("RuntimeError")
    ELSE IF encoder[2] # xs[2] * r * r THEN Fail("RuntimeError")
    ELSE Ok(<<xs[1], xs[2], r * (xs[3] \div r), r * (xs[4] \div r)>>)

\* ------------------------------------------------------------ get_norm_layer
NormTypes == {"batch", "instance", "none"}

\* get_norm_layer (lines 19-27): the exception raised, or "none"
GetNormLayer_Fallback(norm_type) == "none"
GetNormLayer(norm_type) ==
    IF norm_type \in NormTypes THEN "none" ELSE "NotImplementedError"

\* The layer norm_layer(num_features) applied to t. Neither BatchNorm2d nor
\* InstanceNorm2d tracks running statistics (lines 20, 22), so both normalize
\* with the statistics of the input and refuse an input with a single value
\* per channel (batch) or a single spatial element (instance); 'none' is Identity.
Norm(norm_type, t) ==
    IF t.err # "none" THEN t
    ELSE IF norm_type = "batch" /\ t.shape[1] * t.shape[3] * t.shape[4] = 1
           THEN Fail("ValueError")
    ELSE IF norm_type = "instance" /\ t.shape[3] * t.shape[4] = 1
           THEN Fail("ValueError")
    ELSE t

\* --------------------------------------------------- UnetSkipConnectionBlock
\* __init__ (lines 94-151). input_nc and key are <<>> for None; key is
\* <<key_len, redundance_size>> otherwise. The block is described by the channel
\* counts of its convolutions and by the layers of self.model, in order.
UnetSkipConnectionBlock(outer_nc, inner_nc, input_nc, has_sub, outermost, innermost, norm_type, use_dropout, output_function, keycfg) ==
    LET in_nc == IF input_nc = <<>> THEN outer_nc ELSE input_nc[1]
        keyed == keycfg # <<>>
        act == IF output_function = "tanh" THEN "Tanh" ELSE "Sigmoid"
        layers ==
            IF outermost
              THEN <<"downconv", "submodule", "uprelu", "upconv", act>>
            ELSE IF innermost
              THEN <<"downrelu", "downconv", "uprelu", "upconv", "upnorm">>
            ELSE <<"downrelu", "downconv", "downnorm", "submodule", "uprelu", "upconv", "upnorm">>
                 \o (IF use_dropout THEN <<"Dropout">> ELSE <<>>)
    IN  [err |-> IF keyed /\ ~outermost THEN "AssertionError"
                 ELSE IF outermost /\ output_function \notin {"tanh", "sigmoid"}
                        THEN "NotImplementedError"
                        ELSE "none",
         outermost |-> outermost,
         innermost |-> innermost,
         has_sub |-> has_sub,
         outer_nc |-> outer_nc,
         inner_nc |-> inner_nc,
         down_in |-> IF keyed THEN in_nc * 2 ELSE in_nc,
         up_in |-> IF ~outermost /\ innermost THEN inner_nc ELSE inner_nc * 2,
         encoder |-> IF keyed THEN <<keycfg[1], keycfg[2] * keycfg[2] * in_nc>> ELSE <<>>,
         redundance_size |-> IF keyed THEN keycfg[2] ELSE 0,
         norm_type |-> norm_type,
         layers |-> layers]

\* ------------------------------------------------------------- UnetGenerator
\* len(range(n)): a negative n gives no iteration
RangeLen(n) == IF n < 0 THEN 0 ELSE n

\* The blocks of UnetGenerator.__init__ (lines 54-62), in the order they are
\* built: blocks[1] is the innermost one and blocks[i-1] the submodule of
\* blocks[i]; the last one is self.model.
UnetBlocks_Narrow(o) ==
    LET n8 == o.nhf * 8
        mid == [j \in 1..RangeLen(o.num_downs - 5) |->
                   UnetSkipConnectionBlock(n8, n8, <<>>, TRUE, FALSE, FALSE,
                                           o.norm_type, o.use_dropout, "sigmoid", <<>>)]
    IN  <<UnetSkipConnectionBlock(n8, n8, <<>>, FALSE, FALSE, TRUE,
                                  o.norm_type, FALSE, "sigmoid", <<>>)>>
        \o mid
        \o <<UnetSkipConnectionBlock(o.nhf * 4, o.nhf * 4, <<>>, TRUE, FALSE, FALSE,
                                     o.norm_type, FALSE, "sigmoid", <<>>),
             UnetSkipConnectionBlock(o.nhf * 2, o.nhf * 4, <<>>, TRUE, FALSE, FALSE,
                                     o.norm_type, FALSE, "sigmoid", <<>>),
             UnetSkipConnectionBlock(o.nhf, o.nhf * 2, <<>>, TRUE, FALSE, FALSE,
                                     o.norm_type, FALSE, "sigmoid", <<>>),
             UnetSkipConnectionBlock(o.output_nc, o.nhf, <<o.input_nc>>, TRUE, TRUE, FALSE,
                                     o.norm_type, FALSE, o.output_function, o.key)>>
UnetBlocks(o) ==
    LET n8 == o.nhf * 8
        mid == [j \in 1..RangeLen(o.num_downs - 5) |->
                   UnetSkipConnectionBlock(n8, n8, <<>>, TRUE, FALSE, FALSE,
                                           o.norm_type, o.use_dropout, "sigmoid", <<>>)]
    IN  <<UnetSkipConnectionBlock(n8, n8, <<>>, FALSE, FALSE, TRUE,
                                  o.norm_type, FALSE, "sigmoid", <<>>)>>
        \o mid
        \o <<UnetSkipConnectionBlock(o.nhf * 4, n8, <<>>, TRUE, FALSE, FALSE,
                                     o.norm_type, FALSE, "sigmoid", <<>>),
             UnetSkipConnectionBlock(o.nhf * 2, o.nhf * 4, <<>>, TRUE, FALSE, FALSE,
                                     o.norm_type, FALSE, "sigmoid", <<>>),
             UnetSkipConnectionBlock(o.nhf, o.nhf * 2, <<>>, TRUE, FALSE, FALSE,
                                     o.norm_type, FALSE, "sigmoid", <<>>),
             UnetSkipConnectionBlock(o.output_nc, o.nhf, <<o.input_nc>>, TRUE, TRUE, FALSE,
                                     o.norm_type, FALSE, o.output_function, o.key)>>

\* UnetGenerator.__init__ (lines 50-69): the exception raised ("none" when the
\* object is built), the blocks and self.factor (as a fraction <<num, den>>).
UnetGeneratorInit(o) ==
    LET blocks == UnetBlocks(o)
        e1 == GetNormLayer(o.norm_type)
        e2 == blocks[Len(blocks)].err
        e3 == IF o.output_function \in {"tanh", "sigmoid"} THEN "none" ELSE "NotImplementedError"
    IN  [err |-> IF e1 # "none" THEN e1 ELSE IF e2 # "none" THEN e2 ELSE e3,
         blocks |-> blocks,
         factor |-> IF o.output_function = "tanh" THEN <<10, 255>> ELSE <<1, 1>>]

\* Whether self.model of the block holds the named layer
HasLayer(blk, name) == \E j \in 1..Len(blk.layers) : blk.layers[j] = name

\* self.model(t) of blocks[idx] followed by the block's own forward (lines 153-163):
\* the outermost block returns the model's output, every other block
\* concatenates its input with it.
RECURSIVE BlockForward(_, _, _)
BlockForward(blocks, idx, t) ==
    LET blk == blocks[idx]
        conv == Conv2d(blk.down_in, blk.inner_nc, 4, 2, 1, t)
        down == IF HasLayer(blk, "downnorm") THEN Norm(blk.norm_type, conv) ELSE conv
        mid == IF HasLayer(blk, "submodule") THEN BlockForward(blocks, idx - 1, down) ELSE down
        convT == ConvT2d(blk.up_in, blk.outer_nc, 4, 2, 1, mid)
        up == IF HasLayer(blk, "upnorm") THEN Norm(blk.norm_type, convT) ELSE convT
    IN  IF blk.outermost THEN up ELSE Cat1(t, up)

\* UnetGenerator.forward(X, k) (line 73) through the outermost block's forward
\* (lines 154-161): [ke |-> the key tile or <<>>, out |-> result]
UnetForward(n, xs, kk) ==
    LET top == n.blocks[Len(n.blocks)]
        ke == KeyTile(top.encoder, top.redundance_size, kk, xs)
    IN  IF kk = <<>>
          THEN [ke |-> <<>>, out |-> BlockForward(n.blocks, Len(n.blocks), Ok(xs))]
          ELSE [ke |-> ke.shape,
                out |-> BlockForward(n.blocks, Len(n.blocks), Cat1(Ok(xs), ke))]

\* ----------------------------------------------------------------- RevealNet
\* RevealNet.__init__ (lines 180-208): the activation is checked at line 196,
\* the normalization at line 203.
RevealNetInit(o) ==
    LET keyed == o.key # <<>>
        e1 == IF o.output_function = "sigmoid" THEN "none" ELSE "NotImplementedError"
        e2 == GetNormLayer(o.norm_type)
    IN  [err |-> IF e1 # "none" THEN e1 ELSE e2,
         convs |-> <<<<IF keyed THEN o.input_nc * 2 ELSE o.input_nc, o.nrf>>,
                     <<o.nrf, o.nrf * 2>>,
                     <<o.nrf * 2, o.nrf * 4>>,
                     <<o.nrf * 4, o.nrf * 2>>,
                     <<o.nrf * 2, o.nrf>>,
                     <<o.nrf, o.output_nc>>>>,
         encoder |-> IF keyed THEN <<o.key[1], o.key[2] * o.key[2] * o.input_nc>> ELSE <<>>,
         redundance_size |-> IF keyed THEN o.key[2] ELSE 0,
         norm_type |-> o.norm_type]

\* conv1 .. conv<idx> applied in turn (lines 217-222), each but conv6 followed
\* by its norm; relu and the sigmoid keep the shape
RECURSIVE RevealConvs(_, _, _)
RevealConvs(n, idx, t) ==
    IF idx = 0 THEN t
    ELSE LET conv == Conv2d(n.convs[idx][1], n.convs[idx][2], 3, 1, 1,
                            RevealConvs(n, idx - 1, t))
         IN  IF idx < Len(n.convs) THEN Norm(n.norm_type, conv) ELSE conv

\* RevealNet.forward(X, k) (lines 210-223)
RevealForward(n, xs, kk) ==
    LET ke == KeyTile(n.encoder, n.redundance_size, kk, xs)
    IN  IF kk = <<>>
          THEN [ke |-> <<>>, out |-> RevealConvs(n, Len(n.convs), Ok(xs))]
          ELSE [ke |-> ke.shape,
                out |-> RevealConvs(n, Len(n.convs), Cat1(Ok(xs), ke))]

\* ------------------------------------------------- constructing and calling
\* Option strings: the supported ones and one unsupported of each kind.
NormTypeInputs == NormTypes \cup {"layer"}
ActivationInputs == {"sigmoid", "tanh", "relu"}

\* key_len / redundance_size pairs: <<>> for no key, or <<key_len, redundance_size>>
KeyLength == 4
KeyConfigs == {<<>>} \cup {<<KeyLength, r>> : r \in 1..MaxR}

\* Image sizes: powers of two, and three times a (small) power of two
RECURSIVE Pow2(_)
Pow2(e) == IF e = 0 THEN 1 ELSE 2 * Pow2(e - 1)
Sizes == {Pow2(e) : e \in 0..MaxExp} \cup {3 * Pow2(e) : e \in 0..MaxOddExp}

\* Input batches [b, c, h, w] of c channels: square, or up to MaxSkew pixels wider
InputShapes(c) ==
    {<<b, c, h, h + d>> : b \in {1, 10}, h \in Sizes, d \in 0..MaxSkew}

UnetOptions ==
    [input_nc : {3}, output_nc : {3}, num_downs : 1..MaxNumDowns, nhf : 1..MaxNhf,
     norm_type : NormTypeInputs, use_dropout : BOOLEAN,
     output_function : ActivationInputs, key : KeyConfigs]

RevealOptions ==
    [input_nc : {3}, output_nc : {3}, nrf : 1..MaxNhf,
     norm_type : NormTypeInputs, output_function : ActivationInputs, key : KeyConfigs]

\* UnetGenerator(...) (lines 32-69)
UG_Init(o) ==
    /\ pc = "idle"
    /\ opts' = o
    /\ LET r == UnetGeneratorInit(o) IN
         IF r.err = "none"
           THEN net' = <<r>> /\ pc' = "ug_ready" /\ err' = err
           ELSE net' = net /\ pc' = "ug_raised" /\ err' = r.err
    /\ UNCHANGED <<x_shape, k, ke_shape, y_shape, fpVars, anVars, trVars>>

\* One call of UnetGenerator.forward(X, k) (lines 71-73)
UG_Forward(xs, kk) ==
    /\ pc = "ug_ready"
    /\ x_shape' = xs /\ k' = kk
    /\ LET r == UnetForward(net[1], xs, kk) IN
         /\ ke_shape' = r.ke
         /\ IF r.out.err = "none"
              THEN y_shape' = r.out.shape /\ pc' = "ug_return" /\ err' = err
              ELSE y_shape' = y_shape /\ pc' = "ug_raised" /\ err' = r.out.err
    /\ UNCHANGED <<opts, net, fpVars, anVars, trVars>>

\* RevealNet(...) (lines 168-208)
RN_Init(o) ==
    /\ pc = "idle"
    /\ opts' = o
    /\ LET r == RevealNetInit(o) IN
         IF r.err = "none"
           THEN net' = <<r>> /\ pc' = "rn_ready" /\ err' = err
           ELSE net' = net /\ pc' = "rn_raised" /\ err' = r.err
    /\ UNCHANGED <<x_shape, k, ke_shape, y_shape, fpVars, anVars, trVars>>

\* One call of RevealNet.forward(X, k) (lines 210-223)
RN_Forward(xs, kk) ==
    /\ pc = "rn_ready"
    /\ x_shape' = xs /\ k' = kk
    /\ LET r == RevealForward(net[1], xs, kk) IN
         /\ ke_shape' = r.ke
         /\ IF r.out.err = "none"
              THEN y_shape' = r.out.shape /\ pc' = "rn_return" /\ err' = err
              ELSE y_shape' = y_shape /\ pc' = "rn_raised" /\ err' = r.out.err
    /\ UNCHANGED <<opts, net, fpVars, anVars, trVars>>

Net_Next ==
    \/ \E o \in UnetOptions : UG_Init(o)
    \/ \E xs \in InputShapes(3), kk \in {<<>>, <<KeyLength>>} : UG_Forward(xs, kk)
    \/ \E o \in RevealOptions : RN_Init(o)
    \/ \E xs \in InputShapes(3), kk \in {<<>>, <<KeyLength>>} : RN_Forward(xs, kk)

\* --------------------------------------------------------------------- train
\* Floats that may be float('inf'): <<>> is inf, <<v>> the finite value v.
\* a < b
FLess(a, b) == a # <<>> /\ (b = <<>> \/ a[1] < b[1])

\* Python's min(a, b): b when b < a, else a
FMin(a, b) == IF FLess(b, a) THEN b ELSE a

\* decay_num ** n
RECURSIVE Power(_, _)
Power(base, n) == IF n = 0 THEN 1 ELSE base * Power(base, n - 1)

\* adjust_learning_rate (lines 213-217) with decay_num=2: the divisor d of
\* lr = opt.lr * (1 / decay_num ** (epoch // opt.lr_decay_freq)) = opt.lr / d
AdjustedLR_PerEpoch(e, freq) == Power(2, e)
AdjustedLR(e, freq) == Power(2, e \div freq)

\* adjust_learning_rate(optimizer, epoch) (lines 213-217): every group of
\* optimizer.param_groups gets the same rate, whatever it held before
AdjustLearningRate_Kept(groups, e, freq) == [g \in DOMAIN groups |-> IF groups[g] > AdjustedLR(e, freq) THEN groups[g] ELSE AdjustedLR(e, freq)]
AdjustLearningRate(groups, e, freq) == [g \in DOMAIN groups |-> AdjustedLR(e, freq)]

\* save_checkpoint (lines 90-96): the file the state is written to
CheckpointFile_Newest(is_best) == "checkpoint_newest.pth.tar"
CheckpointFile(is_best) == IF is_best THEN "checkpoint_best.pth.tar" ELSE "checkpoint_newest.pth.tar"

\* The dictionary passed to save_checkpoint (lines 395-400, 405-410)
CheckpointState_SameEpoch(e, p, o) == [epoch |-> e, params |-> p, optimizer |-> o]
CheckpointState(e, p, o) == [epoch |-> e + 1, params |-> p, optimizer |-> o]

\* is_best = sum_diff < MIN_LOSS (line 390)
IsBest_OrEqual(sum_diff, min_loss) == ~FLess(min_loss, <<sum_diff>>)
IsBest(sum_diff, min_loss) == FLess(<<sum_diff>>, min_loss)

\* Options and loaders train may run with
TrainOptions ==
    [epochs : {MaxEpochs}, iters_per_epoch : 1..MaxIters, lr_decay_freq : {1, 2}]
TrainLoaders == [secret : 0..MaxBatches, cover : 0..MaxBatches]

\* The parameter groups of the optimizer passed to train, and the learning
\* rates (as divisors of opt.lr) they may hold when train is called
ParamGroups == 1..2
OptimizerInputs == [ParamGroups -> {1, 4}]

\* The sets of groups one scheduler.step may reduce: none or all
SchedulerChoices == {{}, ParamGroups}

\* Values an average pixel difference returned by inference may take
APDValues == {0, 1}

\* len(zip(train_loader_secret, train_loader_cover))
ZipLen(l) == IF l.secret < l.cover THEN l.secret ELSE l.cover

\* An entry of the epoch's event log: the call and the parameters after it
Event(name, p) == [ev |-> name, params |-> p]

\* train(...) up to the loop (lines 278-296): the options, the loaders and the
\* optimizer it is given, whose groups hold the rates in groups
TR_Call(o, l, groups) ==
    /\ pc = "idle"
    /\ opt' = o /\ loaders' = l
    /\ lr' = groups
    /\ MIN_LOSS' = <<>>
    /\ epoch' = 0
    /\ pc' = "tr_epoch"
    /\ UNCHANGED <<err, i, bound, params, events, val, ckpt_best, ckpt_newest, saves, fpVars, anVars, netVars>>

\* for epoch in range(opt.epochs): adjust_learning_rate, the zips, the meters
\* (lines 297-317); after the last epoch train returns (line 413)
TR_EpochBegin ==
    /\ pc = "tr_epoch"
    /\ IF epoch < opt.epochs
         THEN /\ lr' = AdjustLearningRate(lr, epoch, opt.lr_decay_freq)
              /\ events' = <<Event("adjust_learning_rate", params)>>
              /\ pc' = "tr_iter"
         ELSE /\ pc' = "tr_return"
              /\ UNCHANGED <<lr, events>>
    /\ UNCHANGED <<err, opt, loaders, epoch, i, bound, params, MIN_LOSS, val, ckpt_best, ckpt_newest, saves, fpVars, anVars, netVars>>

\* The head of the loop at line 319 yields a pair, then forward_pass, the
\* meters and loss_sum (lines 320-334).  At "tr_iter" the enumeration has
\* yielded nothing yet; at "tr_iter_next" it has yielded i pairs.
TR_Forward ==
    /\ pc \in {"tr_iter", "tr_iter_next"}
    /\ LET n == IF pc = "tr_iter" THEN 0 ELSE i IN
         /\ n < ZipLen(loaders)
         /\ i' = n + 1
    /\ bound' = TRUE
    /\ events' = Append(events, Event("forward_pass", params))
    /\ pc' = "tr_zero_grad"
    /\ UNCHANGED <<err, opt, loaders, epoch, lr, params, MIN_LOSS, val, ckpt_best, ckpt_newest, saves, fpVars, anVars, netVars>>

\* optimizer.zero_grad() (line 336)
TR_ZeroGrad ==
    /\ pc = "tr_zero_grad"
    /\ events' = Append(events, Event("zero_grad", params))
    /\ pc' = "tr_backward"
    /\ UNCHANGED <<err, opt, loaders, epoch, i, bound, lr, params, MIN_LOSS, val, ckpt_best, ckpt_newest, saves, fpVars, anVars, netVars>>

\* loss_sum.backward() (line 337)
TR_Backward ==
    /\ pc = "tr_backward"
    /\ events' = Append(events, Event("backward", params))
    /\ pc' = "tr_step"
    /\ UNCHANGED <<err, opt, loaders, epoch, i, bound, lr, params, MIN_LOSS, val, ckpt_best, ckpt_newest, saves, fpVars, anVars, netVars>>

\* optimizer.step(), the log and the break (lines 338-361)
TR_Step ==
    /\ pc = "tr_step"
    /\ params' = params + 1
    /\ events' = Append(events, Event("step", params + 1))
    /\ pc' = IF i = opt.iters_per_epoch THEN "tr_epoch_end" ELSE "tr_iter_next"
    /\ UNCHANGED <<err, opt, loaders, epoch, i, bound, lr, MIN_LOSS, val, ckpt_best, ckpt_newest, saves, fpVars, anVars, netVars>>

\* The zip is exhausted: the for loop ends without a break
TR_Exhausted ==
    /\ pc \in {"tr_iter", "tr_iter_next"}
    /\ (IF pc = "tr_iter" THEN 0 ELSE i) >= ZipLen(loaders)
    /\ pc' = "tr_epoch_end"
    /\ UNCHANGED <<err, trVars, fpVars, anVars, netVars>>

\* save_result_pic(batch_size, cover, ..., epoch, i, ...), the epoch log and the
\* loss picture (lines 363-382): the arguments are locals of the loop body
TR_EpochEnd ==
    /\ pc = "tr_epoch_end"
    /\ IF bound
         THEN pc' = "tr_val" /\ err' = err
         ELSE pc' = "tr_raised" /\ err' = "UnboundLocalError"
    /\ UNCHANGED <<trVars, fpVars, anVars, netVars>>

\* inference(val_loader, ...) (lines 384-385, 416-487): eval mode, the forward
\* passes over the validation batches, and the averages it returns; there is
\* no optimizer call in it
TR_Validate_Training(hdiff, rdiff, rdiff_) ==
    /\ pc = "tr_val"
    /\ val' = <<[val_hdiff |-> hdiff, val_rdiff |-> rdiff, val_rdiff_ |-> rdiff_]>>
    /\ params' = params + 1
    /\ events' = Append(events, Event("inference", params + 1))
    /\ pc' = "tr_sched"
    /\ UNCHANGED <<err, opt, loaders, epoch, i, bound, lr, MIN_LOSS, ckpt_best, ckpt_newest, saves, fpVars, anVars, netVars>>
TR_Validate(hdiff, rdiff, rdiff_) ==
    /\ pc = "tr_val"
    /\ val' = <<[val_hdiff |-> hdiff, val_rdiff |-> rdiff, val_rdiff_ |-> rdiff_]>>
    /\ params' = params
    /\ events' = Append(events, Event("inference", params))
    /\ pc' = "tr_sched"
    /\ UNCHANGED <<err, opt, loaders, epoch, i, bound, lr, MIN_LOSS, ckpt_best, ckpt_newest, saves, fpVars, anVars, netVars>>

\* scheduler.step(val_rloss) (line 387): the scheduler keeps the learning rate
\* of a group or reduces it; reduce is the set of groups it reduces
TR_SchedulerStep(reduce) ==
    /\ pc = "tr_sched"
    /\ lr' = [g \in ParamGroups |-> IF g \in reduce THEN lr[g] * 10 ELSE lr[g]]
    /\ events' = Append(events, Event("scheduler.step", params))
    /\ pc' = "tr_ckpt"
    /\ UNCHANGED <<err, opt, loaders, epoch, i, bound, params, MIN_LOSS, val, ckpt_best, ckpt_newest, saves, fpVars, anVars, netVars>>

\* sum_diff, is_best, MIN_LOSS and the checkpoint (lines 389-412), with
\* save_checkpoint (lines 90-96) writing the best or the newest file
TR_Checkpoint ==
    /\ pc = "tr_ckpt"
    /\ LET sum_diff == val[1].val_hdiff + val[1].val_rdiff + val[1].val_rdiff_
           is_best == IsBest(sum_diff, MIN_LOSS)
           state == CheckpointState(epoch, params, lr)
       IN  /\ MIN_LOSS' = FMin(MIN_LOSS, <<sum_diff>>)
           /\ ckpt_best' = IF CheckpointFile(is_best) = "checkpoint_best.pth.tar"
                              THEN <<state>> ELSE ckpt_best
           /\ ckpt_newest' = IF CheckpointFile(is_best) = "checkpoint_newest.pth.tar"
                                THEN <<state>> ELSE ckpt_newest
           /\ saves' = Append(saves, [is_best |-> is_best, sum_diff |-> sum_diff,
                                      epoch |-> state.epoch, params |-> state.params])
    /\ events' = Append(events, Event("save_checkpoint", params))
    /\ epoch' = epoch + 1
    /\ pc' = "tr_epoch"
    /\ UNCHANGED <<err, opt, loaders, i, bound, lr, params, val, fpVars, anVars, netVars>>

TR_Next ==
    \/ \E o \in TrainOptions, l \in TrainLoaders, g \in OptimizerInputs : TR_Call(o, l, g)
    \/ TR_EpochBegin
    \/ TR_Forward
    \/ TR_ZeroGrad
    \/ TR_Backward
    \/ TR_Step
    \/ TR_Exhausted
    \/ TR_EpochEnd
    \/ \E h \in APDValues, r \in APDValues, f \in APDValues : TR_Validate(h, r, f)
    \/ \E reduce \in SchedulerChoices : TR_SchedulerStep(reduce)
    \/ TR_Checkpoint

\* ------------------------------------------------------------ specification
Init ==
    /\ pc = "idle"
    /\ err = "none"
    /\ cover = <<>> /\ secret = <<>> /\ Enet = "None"
    /\ key = <<>> /\ fake_key = <<>>
    /\ keySamples = 0
    /\ resampled = FALSE
    /\ hnetCalls = 0 /\ rnetCalls = 0
    /\ noise_type = "unset" /\ X = <<>> /\ attack_out = <<>>
    /\ opts = <<>> /\ net = <<>>
    /\ x_shape = <<>> /\ k = <<>> /\ ke_shape = <<>> /\ y_shape = <<>>
    /\ opt = <<>> /\ loaders = <<>>
    /\ epoch = 0 /\ i = 0 /\ bound = FALSE
    /\ lr = <<>> /\ params = 0 /\ events = <<>>
    /\ MIN_LOSS = <<>> /\ val = <<>>
    /\ ckpt_best = <<>> /\ ckpt_newest = <<>> /\ saves = <<>>

Next ==
    \/ FP_Next
    \/ AN_Next
    \/ Net_Next
    \/ TR_Next

Spec == Init /\ [][Next]_vars

\* One entry point at a time
SpecAttack == Init /\ [][AN_Next]_vars
SpecNet == Init /\ [][Net_Next]_vars
SpecTrain == Init /\ [][TR_Next]_vars

\* forward_pass alone, with the fairness of its random sampling: a started call
\* keeps running, and no outcome of the resampling at line 239 is avoided for ever.
AllKeys == UNION {BinVec(n) : n \in 0..MaxW}

FairFP ==
    /\ Init /\ [][FP_Next]_vars
    /\ WF_vars(FP_Steps)
    /\ \A v \in AllKeys : WF_vars(FP_Resample(v))

\* ------------------------------------------------------------------ claims
IsBinary(v) == \A j \in 1..Len(v) : v[j] \in {0, 1}

\* C1: for a real key of length w >= 1 the resampling loop of forward_pass ends
\* (under fair sampling), and past the loop the fake key differs from the real
\* key, both being binary vectors of length w = image width.
C1_FakeKeyDiffers ==
    /\ [](pc \in {"fp_nets", "fp_return"} =>
            /\ fake_key # key
            /\ Len(key) = cover[4] /\ Len(fake_key) = cover[4]
            /\ IsBinary(key) /\ IsBinary(fake_key))
    /\ ((pc = "fp_key" /\ KeyLen >= 1) ~> (pc = "fp_nets"))

\* C1 witness: the loop body ran and the call went past the loop.
C1_Witness ==
    pc = "fp_nets" /\ resampled /\ KeyLen >= 1 /\ fake_key # key

\* The least sum_diff among the first n completed epochs, and the first epoch
\* attaining it
MinOfFirst(n) == CHOOSE m \in {saves[e].sum_diff : e \in 1..n} :
                     \A e \in 1..n : m <= saves[e].sum_diff
EarliestMin(n) == CHOOSE e \in 1..n :
                     /\ saves[e].sum_diff = MinOfFirst(n)
                     /\ \A j \in 1..(e - 1) : saves[j].sum_diff # MinOfFirst(n)

\* C2: after every completed epoch MIN_LOSS is the least sum_diff of the
\* epochs completed so far; an epoch writes the 'best' checkpoint exactly when
\* its sum_diff is strictly below that of every earlier epoch; so the 'best'
\* checkpoint holds the epoch index and parameters of the earliest epoch that
\* attains the running minimum.
C2_BestIsRunningMinimum ==
    LET n == Len(saves) IN
    /\ (n = 0 => MIN_LOSS = <<>> /\ ckpt_best = <<>>)
    /\ (n > 0 =>
          /\ MIN_LOSS = <<MinOfFirst(n)>>
          /\ ckpt_best # <<>>
          /\ ckpt_best[1].epoch = saves[EarliestMin(n)].epoch
          /\ ckpt_best[1].params = saves[EarliestMin(n)].params)
    /\ \A e \in 1..n :
          /\ saves[e].epoch = e
          /\ saves[e].is_best <=> (\A j \in 1..(e - 1) : saves[e].sum_diff < saves[j].sum_diff)

\* C2 witness: the second epoch improved the minimum, the third only equalled
\* it, and the 'best' checkpoint is still the second epoch's.
C2_Witness ==
    /\ Len(saves) = 3
    /\ saves[1].sum_diff > saves[2].sum_diff /\ saves[3].sum_diff = saves[2].sum_diff
    /\ ckpt_best[1].epoch = 2 /\ ckpt_best[1].params = saves[2].params
    /\ saves[3].params # saves[2].params

\* The layers of the five fifths, in order
CombineOrder == <<"identity", "gaussian_noise", "gaussian_blur", "resize", "jpeg">>

\* C3: in 'combine' mode on a batch of size b divisible by 5 the output has b
\* items, item j at position j, and the five consecutive fifths went through
\* identity, Gaussian noise, Gaussian blur, resize and JPEG, in this order.
C3_CombineSlices ==
    (pc \in {"an_return", "an_raised"} /\ noise_type = "combine" /\ Len(X) % 5 = 0) =>
        /\ pc = "an_return"
        /\ Len(attack_out) = Len(X)
        /\ \A j \in 1..Len(X) :
              attack_out[j] = <<X[j], CombineOrder[((j - 1) \div (Len(X) \div 5)) + 1]>>

\* C3 witness: a combine call on ten items has returned.
C3_Witness ==
    pc = "an_return" /\ noise_type = "combine" /\ Len(X) = 10 /\ Len(attack_out) = 10

\* C4: in single mode (noise, blur, resize, jpeg) the output is an identity
\* slice followed by a slice through the chosen layer, the two covering every
\* batch index once and in place, so the output has the input's batch size.
C4_SingleSlices ==
    (pc \in {"an_return", "an_raised"} /\ noise_type \in {"noise", "blur", "resize", "jpeg"}) =>
        /\ pc = "an_return"
        /\ Len(attack_out) = Len(X)
        /\ \E cut \in 0..Len(X) :
              \A j \in 1..Len(X) :
                  attack_out[j] =
                      <<X[j], IF j <= cut THEN "identity" ELSE SingleLayer(noise_type)>>

\* C4 witness: a single-mode call whose two slices are both non-empty.
C4_Witness ==
    /\ pc = "an_return" /\ noise_type = "blur" /\ Len(X) = 5
    /\ attack_out[2] = <<2, "identity">> /\ attack_out[3] = <<3, "gaussian_blur">>

\* C5 (as claimed): every noise type of the configuration surface, 'identity'
\* included, is accepted: forward returns a batch of the input's size.
C5_AllConfigTypesAccepted ==
    (pc \in {"an_return", "an_raised"} /\ noise_type \in ConfigNoiseTypes) =>
        pc = "an_return" /\ err = "none" /\ Len(attack_out) = Len(X)

\* C6 (as claimed): a noise type outside the configuration surface ends in a
\* NotImplementedError, and in nothing else.
C6_UnsupportedNoiseRaises ==
    (pc \in {"an_return", "an_raised"} /\ noise_type \notin ConfigNoiseTypes) =>
        pc = "an_raised" /\ err = "NotImplementedError"

\* The network a forward call ran on, and the call's input
UnetRan == pc \in {"ug_return", "ug_raised"} /\ x_shape # <<>>
RevealRan == pc \in {"rn_return", "rn_raised"} /\ x_shape # <<>>
TopBlock == net[1].blocks[Len(net[1].blocks)]
NetEncoder == IF UnetRan THEN TopBlock.encoder ELSE net[1].encoder
NetR == IF UnetRan THEN TopBlock.redundance_size ELSE net[1].redundance_size

\* C7: UnetGenerator or RevealNet given a normalization outside {batch,
\* instance, none}, or an activation outside {sigmoid, tanh} (UnetGenerator) or
\* {sigmoid} (RevealNet), raises NotImplementedError in the constructor and no
\* network object exists.
C7_UnsupportedOptionRaises ==
    /\ (/\ pc \in {"ug_ready", "ug_return", "ug_raised"}
        /\ (opts.norm_type \notin NormTypes \/ opts.output_function \notin {"sigmoid", "tanh"}))
          => (pc = "ug_raised" /\ err = "NotImplementedError" /\ net = <<>>)
    /\ (/\ pc \in {"rn_ready", "rn_return", "rn_raised"}
        /\ (opts.norm_type \notin NormTypes \/ opts.output_function \notin {"sigmoid"}))
          => (pc = "rn_raised" /\ err = "NotImplementedError" /\ net = <<>>)

\* C7 witness: a UnetGenerator whose only unsupported option is the normalization.
C7_Witness ==
    /\ pc = "ug_raised" /\ err = "NotImplementedError"
    /\ opts.norm_type = "layer" /\ opts.output_function = "sigmoid"

\* C8 (as claimed): for a square input whose side is divisible by
\* 2^num_downs, UnetGenerator.forward returns (no skip concatenation fails) a
\* tensor of the input's batch size, height and width.  The key path is kept
\* out of the way: no key, or a key and a side divisible by redundance_size.
C8_UnetShapeLaw ==
    (/\ UnetRan
     /\ x_shape[3] = x_shape[4]
     /\ x_shape[3] % Pow2(opts.num_downs) = 0
     /\ \/ (k = <<>> /\ NetEncoder = <<>>)
        \/ (k # <<>> /\ NetEncoder # <<>> /\ x_shape[3] % NetR = 0))
      => /\ pc = "ug_return"
         /\ y_shape[1] = x_shape[1] /\ y_shape[3] = x_shape[3] /\ y_shape[4] = x_shape[4]

\* C9: with a key given to a network built with key_len, an image height or
\* width not divisible by redundance_size r ends the forward call in a
\* dimension error (the tile is r*floor(H/r) high, not H); with both divisible
\* the key tile has exactly the input's shape [B,C,H,W].
C9_KeyTileDivisibility ==
    ((UnetRan \/ RevealRan) /\ k # <<>> /\ NetEncoder # <<>>) =>
        IF x_shape[3] % NetR # 0 \/ x_shape[4] % NetR # 0
          THEN /\ pc \in {"ug_raised", "rn_raised"} /\ err = "RuntimeError"
               /\ ke_shape # x_shape
          ELSE ke_shape = x_shape

\* C9 witness: RevealNet.forward with a key on an image whose side the
\* redundance size does not divide.
C9_Witness ==
    /\ RevealRan /\ pc = "rn_raised" /\ err = "RuntimeError"
    /\ k # <<>> /\ NetEncoder # <<>>
    /\ x_shape[3] % NetR # 0 /\ ke_shape[3] = NetR * (x_shape[3] \div NetR)

\* C10: forward_pass on cover and secret of different shapes, or on non-square
\* images, ends in an AssertionError with no key sampled and no network invoked.
C10_AssertBeforeWork ==
    /\ (pc \in {"fp_unpack", "fp_assert_square", "fp_key", "fp_fake", "fp_while",
                 "fp_nets", "fp_return"} => cover = secret)
    /\ (pc \in {"fp_key", "fp_fake", "fp_while", "fp_nets", "fp_return"} =>
            cover[3] = cover[4])
    /\ (cover # secret \/ (Len(cover) = 4 /\ cover[3] # cover[4])) =>
            /\ keySamples = 0 /\ key = <<>> /\ fake_key = <<>>
            /\ hnetCalls = 0 /\ rnetCalls = 0
            /\ (pc = "fp_raised" => err = "AssertionError")

\* C10 witness: equal shapes, height # width, stopped by the second assertion.
C10_Witness ==
    /\ pc = "fp_raised" /\ err = "AssertionError"
    /\ cover = secret /\ Len(cover) = 4 /\ cover[3] # cover[4]

\* Events of the current epoch's log with the given name
EventCount(name) == Cardinality({j \in 1..Len(events) : events[j].ev = name})

\* The training loop of the current epoch is over
LoopOver ==
    \/ pc \in {"tr_epoch_end", "tr_val", "tr_sched", "tr_ckpt", "tr_raised"}
    \/ pc \in {"tr_epoch", "tr_return"} /\ events # <<>>

Min3(a, b, c) == IF a <= b /\ a <= c THEN a ELSE IF b <= c THEN b ELSE c

\* C11: in every epoch the number of training iterations (a forward pass
\* followed by one optimizer step) is min(iters_per_epoch, batches of the secret
\* loader, batches of the cover loader), and an epoch cut short by an exhausted
\* loader, even one that yields no batch, goes on to the epoch-end logging,
\* validation and checkpoint without an error.
C11_TruncatedEpochContinues ==
    /\ LoopOver =>
          /\ EventCount("forward_pass") = Min3(opt.iters_per_epoch, loaders.secret, loaders.cover)
          /\ EventCount("step") = EventCount("forward_pass")
    /\ pc # "tr_raised"

\* A UnetGenerator object exists
UnetBuilt == pc \in {"ug_ready", "ug_return", "ug_raised"} /\ net # <<>>

\* How many times self.model of the block holds the submodule
SubmoduleCount(blk) == Cardinality({j \in 1..Len(blk.layers) : blk.layers[j] = "submodule"})

\* C12: for every num_downs the network built by UnetGenerator has exactly
\* one innermost and exactly one outermost block, every block but the innermost
\* owns exactly one submodule, and the number of nested blocks equals num_downs.
C12_DepthIsNumDowns ==
    UnetBuilt =>
      LET blocks == net[1].blocks IN
      /\ Cardinality({j \in 1..Len(blocks) : blocks[j].innermost}) = 1
      /\ Cardinality({j \in 1..Len(blocks) : blocks[j].outermost}) = 1
      /\ \A j \in 1..Len(blocks) :
            SubmoduleCount(blocks[j]) = (IF blocks[j].innermost THEN 0 ELSE 1)
      /\ Len(blocks) = opts.num_downs

\* adjust_learning_rate has just run for the current epoch
JustAdjusted == pc = "tr_iter"

\* C13: adjust_learning_rate(optimizer, epoch) sets every parameter group's
\* rate to opt.lr / 2^(epoch // lr_decay_freq) (lr holds the divisor): the rate
\* is the same as the preceding epoch's inside a window of lr_decay_freq epochs,
\* half of it at a window boundary, and never above that of an earlier epoch.
C13_StepDecaySchedule ==
    JustAdjusted =>
      LET freq == opt.lr_decay_freq IN
      \A g \in ParamGroups :
        /\ \E q \in 0..epoch :
              /\ q * freq <= epoch /\ epoch < (q + 1) * freq
              /\ lr[g] = Power(2, q)
        /\ (epoch % freq # 0 => lr[g] = AdjustedLR(epoch - 1, freq))
        /\ (epoch > 0 /\ epoch % freq = 0 => lr[g] = 2 * AdjustedLR(epoch - 1, freq))
        /\ \A e \in 0..epoch : AdjustedLR(e, freq) <= lr[g]

\* C13 witness: with lr_decay_freq = 2 the third epoch starts a new window and
\* both groups hold half the initial rate.
C13_Witness ==
    /\ JustAdjusted
    /\ opt.lr_decay_freq = 2 /\ epoch = 2
    /\ \A g \in ParamGroups : lr[g] = 2

\* The name of the event n places before the end of the epoch's log
EvBack(n) == IF Len(events) > n THEN events[Len(events) - n].ev ELSE "none"

\* Between two iterations of the training loop, or after it
BetweenIterations == pc \in {"tr_iter", "tr_iter_next"} \/ LoopOver

\* What C14 says of one step of train
C14_Step ==
    /\ params' # params =>
          /\ pc = "tr_step"
          /\ EvBack(2) = "forward_pass" /\ EvBack(1) = "zero_grad" /\ EvBack(0) = "backward"
    /\ pc = "tr_step" /\ pc' # pc => params' # params
    /\ pc \in {"tr_iter", "tr_iter_next", "tr_zero_grad", "tr_backward"} => params' = params
    /\ pc = "tr_val" => params' = params

\* C14: the networks' parameters change only in optimizer.step, which runs
\* once per training iteration, after that iteration's forward_pass, zero_grad
\* and backward in this order; inference leaves the parameters as they were.
C14_OnlyStepChangesParams ==
    /\ [][C14_Step]_vars
    /\ [](BetweenIterations => EventCount("step") = EventCount("forward_pass"))

\* C14 witness: inference has returned after an epoch of two training
\* iterations, and the parameters are those the second optimizer.step left.
C14_Witness ==
    /\ pc = "tr_sched"
    /\ EventCount("step") = 2
    /\ EvBack(0) = "inference" /\ EvBack(1) = "step"
    /\ events[Len(events)].params = events[Len(events) - 1].params
    /\ params = events[Len(events)].params

\* The place of a call in the order C15 gives for one epoch
Rank(ev) ==
    CASE ev = "adjust_learning_rate" -> 1
      [] ev \in {"forward_pass", "zero_grad", "backward", "step"} -> 2
      [] ev = "inference" -> 3
      [] ev = "scheduler.step" -> 4
      [] ev = "save_checkpoint" -> 5

\* The epoch's log so far follows that order, with only the training
\* iterations repeated
OrderedEpoch ==
    /\ events # <<>> => events[1].ev = "adjust_learning_rate"
    /\ \A j \in 1..(Len(events) - 1) :
          /\ Rank(events[j].ev) <= Rank(events[j + 1].ev)
          /\ Rank(events[j].ev) = Rank(events[j + 1].ev) => Rank(events[j].ev) = 2

\* The epoch whose log is held has written its checkpoint
EpochComplete == pc \in {"tr_epoch", "tr_return"} /\ events # <<>>

\* The write of the checkpoint: the file that changes holds epoch + 1 and the
\* parameters left by the last optimizer.step of the epoch
C15_Write ==
    pc = "tr_ckpt" /\ pc' # pc =>
      LET written == IF ckpt_best' # ckpt_best THEN ckpt_best' ELSE ckpt_newest' IN
      /\ written # <<>>
      /\ written[1].epoch = epoch + 1
      /\ EvBack(2) = "step"
      /\ written[1].params = events[Len(events) - 2].params

\* C15: in each epoch the calls come in the order adjust_learning_rate, the
\* training iterations, inference, scheduler.step, save_checkpoint; inference
\* runs once per epoch, and the checkpoint holds epoch + 1 and the parameters as
\* the epoch's last training iteration left them.
C15_EpochOrder ==
    /\ [](OrderedEpoch /\ EventCount("inference") <= 1)
    /\ [](EpochComplete =>
            /\ EventCount("inference") = 1
            /\ EvBack(3) = "step"
            /\ EvBack(2) = "inference" /\ EvBack(1) = "scheduler.step"
            /\ EvBack(0) = "save_checkpoint")
    /\ [][C15_Write]_vars

\* C15 witness: the second epoch is complete after two training iterations
\* and its checkpoint, the 'newest' one, holds epoch 2 and the parameters of
\* the fourth optimizer.step.
C15_Witness ==
    /\ pc = "tr_epoch" /\ epoch = 2
    /\ Len(events) = 12 /\ EventCount("step") = 2
    /\ ckpt_newest # <<>>
    /\ ckpt_newest[1].epoch = 2 /\ ckpt_newest[1].params = 4
    /\ events[9].ev = "step" /\ events[9].params = 4

\* At the head of the training loop or inside one of its iterations
InTrainingLoop == pc \in {"tr_iter", "tr_iter_next", "tr_zero_grad", "tr_backward", "tr_step"}

\* The checkpoint written at the end of the preceding epoch, <<>> if none
PreviousCheckpoint ==
    IF ckpt_best # <<>> /\ ckpt_best[1].epoch = epoch THEN ckpt_best
    ELSE IF ckpt_newest # <<>> /\ ckpt_newest[1].epoch = epoch THEN ckpt_newest
    ELSE <<>>

\* C16: at the start of, and throughout, the training iterations of epoch e
\* every parameter group's rate is opt.lr / 2^(e // lr_decay_freq) (lr holds the
\* divisor), whatever reduction scheduler.step made at the end of earlier epochs.
C16_SchedulerReductionOverwritten ==
    InTrainingLoop =>
      \A g \in ParamGroups : lr[g] = Power(2, epoch \div opt.lr_decay_freq)

\* C16 witness: the scheduler reduced the rates at the end of the preceding
\* epoch (the checkpoint written then holds them), and the iterations of this
\* epoch run with the rate of the decay schedule.
C16_Witness ==
    /\ pc = "tr_zero_grad" /\ epoch >= 1
    /\ PreviousCheckpoint # <<>>
    /\ \A g \in ParamGroups :
          /\ PreviousCheckpoint[1].optimizer[g] = 10 * AdjustedLR(epoch - 1, opt.lr_decay_freq)
          /\ lr[g] = AdjustedLR(epoch, opt.lr_decay_freq)
          /\ lr[g] < PreviousCheckpoint[1].optimizer[g]

\* The file holds the checkpoint of the n-th epoch
Holds(file, n) == file # <<>> /\ file[1].epoch = n

\* What C17 says of the end of an epoch: the epoch improves the running
\* minimum exactly when MIN_LOSS changes
C17_Write ==
    pc = "tr_ckpt" /\ pc' # pc =>
      IF MIN_LOSS' # MIN_LOSS
        THEN Holds(ckpt_best', epoch + 1) /\ ckpt_newest' = ckpt_newest
        ELSE Holds(ckpt_newest', epoch + 1) /\ ckpt_best' = ckpt_best

\* C17: each completed epoch writes exactly one checkpoint file, 'best' when
\* is_best holds and 'newest' otherwise, never both; an epoch that improves the
\* running minimum leaves the 'newest' file as it was.
C17_OneCheckpointPerEpoch ==
    /\ [][C17_Write]_vars
    /\ [](\A n \in 1..Len(saves) :
            /\ ~(Holds(ckpt_best, n) /\ Holds(ckpt_newest, n))
            /\ n = Len(saves) =>
                  (Holds(ckpt_best, n) <=> saves[n].is_best)
                  /\ (Holds(ckpt_newest, n) <=> ~saves[n].is_best))

\* C17 witness: the third epoch improved the minimum after a second epoch
\* that did not, so the 'newest' file still holds epoch 2 below the 'best'
\* file's epoch 3.
C17_Witness ==
    /\ pc = "tr_epoch" /\ Len(saves) = 3
    /\ saves[3].is_best /\ ~saves[2].is_best
    /\ Holds(ckpt_best, 3) /\ Holds(ckpt_newest, 2)
    /\ ckpt_newest[1].params < ckpt_best[1].params

\* Channels a non-outermost block returns: its input concatenated with the
\* output of its transposed convolution (line 163)
OutChannels(blk) == blk.down_in + blk.outer_nc

\* C18: for num_downs >= 5 and nhf >= 1 the channel counts fit at every
\* nesting level: a non-outermost block returns 2*outer_nc channels, which is
\* the input size (inner_nc*2) of the enclosing block's transposed convolution,
\* and its down-convolution takes the channels the enclosing block's
\* down-convolution produces.
C18_ChannelsConsistent ==
    (UnetBuilt /\ opts.num_downs >= 5 /\ opts.nhf >= 1) =>
      LET blocks == net[1].blocks IN
      \A j \in 1..(Len(blocks) - 1) :
        /\ OutChannels(blocks[j]) = 2 * blocks[j].outer_nc
        /\ OutChannels(blocks[j]) = blocks[j + 1].up_in
        /\ blocks[j + 1].up_in = 2 * blocks[j + 1].inner_nc
        /\ blocks[j].down_in = blocks[j + 1].inner_nc

\* C18 witness: a network of seven nested blocks with nhf = 2 whose forward
\* call went through every level and returned.
C18_Witness ==
    /\ pc = "ug_return" /\ UnetBuilt
    /\ opts.num_downs = 7 /\ opts.nhf = 2
    /\ Len(net[1].blocks) = 7
    /\ y_shape # <<>>


====
